---- MODULE Spec2Model ----
(***************************************************************************)
(* Model of the MCA backend's two pieces of operational logic:             *)
(*   - webhook delivery with retry (app/services/webhook_service.py,       *)
(*     app/tasks/webhook_tasks.py);                                        *)
(*   - the OCR scoring / document status pipeline                          *)
(*     (app/services/ocr_service.py, app/tasks/ocr_tasks.py,               *)
(*     app/tasks/document_tasks.py, app/services/document_service.py).     *)
(*                                                                         *)
(* Calls into collaborators (HTTP, S3, the OCR engine, the JWT library,    *)
(* payload/document validation) are modelled by their outcome, which is an *)
(* input of the action that makes the call.  The database session is the   *)
(* thread-local scoped_session of app/db/session.py:46, so two             *)
(* SessionLocal() calls made by one worker yield the same session.         *)
(***************************************************************************)
EXTENDS Integers, Sequences, FiniteSets, TLC

VARIABLES
    registered,   \* ids of the Webhook rows that exist
    webhooks,     \* id -> the Webhook row (status, delivered, delivered_at, retry_count, url)
    wtask,        \* the webhook call in progress, or the last one finished
    wretry        \* the retry of process_webhook_event that self.retry() has queued

wvars == <<registered, webhooks, wtask, wretry>>

VARIABLES
    documents,    \* ids of the Document rows that exist
    docs,         \* id -> the Document row (status, confidence_score, storage_path, metadata)
    content,      \* id -> the score the OCR engine and the scorer yield for the stored file
    ocr_results,  \* id -> the OCR records saved for the document, oldest first
    sess,         \* the task's `document` object in the worker's session
    otask         \* the pipeline run in progress, or the last one finished

ovars == <<documents, docs, content, ocr_results, sess, otask>>

VARIABLES
    mapScore,     \* the score handed to the two mappings
    mapService,   \* the status process_document derives from it
    mapTask       \* the status ocr_task derives from it

mvars == <<mapScore, mapService, mapTask>>

VARIABLES
    wworkers,     \* worker -> the process_webhook_event run it is executing
    fdocs,        \* several Documents: id -> row
    fcontent,     \* id -> the score its file yields
    fresults,     \* id -> its OCR records
    fruns         \* id -> the ocr_task run on it, each on a worker of its own

cvars == <<wworkers, fdocs, fcontent, fresults, fruns>>

VARIABLES
    scText,       \* extracted_text handed to calculate_confidence_score
    scConf,       \* ocr_data['conf'] handed to it
    scOut,        \* what the call returned
    scAgain       \* what a second call with the same arguments returned

svars == <<scText, scConf, scOut, scAgain>>

VARIABLES
    ocrResp       \* the body of the last answer of GET /api/v1/ocr/{id}/status

qvars == <<ocrResp>>

VARIABLES
    ptask,        \* the run of tasks.process_document in progress, or the last one
    pqueue,       \* update_document_status messages sent and not yet taken, oldest first
    pworkers,     \* worker process -> the update_document_status message it is executing
    pdoc          \* the status of the Document row of that run, or "absent"

pvars == <<ptask, pqueue, pworkers, pdoc>>

VARIABLES
    TOKEN_BLACKLIST,  \* the module-level set of utils/security.py
    confirmed,        \* tokens for which blacklist_token has returned True
    secCall           \* the last call of blacklist_token or enhance_security_checks

tvars == <<TOKEN_BLACKLIST, confirmed, secCall>>

vars == <<wvars, ovars, mvars, cvars, svars, qvars, pvars, tvars>>

\* what the operations of one subsystem leave alone
NotWebhook == <<ovars, mvars, cvars, svars, qvars, pvars, tvars>>
NotOcr == <<wvars, mvars, cvars, svars, qvars, pvars, tvars>>
NotMap == <<wvars, ovars, cvars, svars, qvars, pvars, tvars>>
NotWorkers == <<ovars, mvars, fdocs, fcontent, fresults, fruns, svars, qvars, pvars, tvars>>
NotFrame == <<wvars, ovars, mvars, wworkers, svars, qvars, pvars, tvars>>
NotScore == <<wvars, ovars, mvars, cvars, qvars, pvars, tvars>>
NotQuery == <<wvars, ovars, mvars, cvars, svars, pvars, tvars>>
NotPipeline == <<wvars, ovars, mvars, cvars, svars, qvars, tvars>>
NotSecurity == <<wvars, ovars, mvars, cvars, svars, qvars, pvars>>

(***************************************************************************)
(* Program constants                                                       *)
(***************************************************************************)
\* webhook_service.py:31, used by tenacity's stop_after_attempt and by the
\* "raise for retry" test of trigger_webhook
MAX_RETRIES == 3
\* webhook_tasks.py:28
TASK_MAX_RETRIES == 3
\* RETRY_DELAY of services/webhook_service.py, the wait_fixed() of trigger_webhook
WEBHOOK_RETRY_DELAY == 5
\* RETRY_DELAY of tasks/webhook_tasks.py, the base of the task's countdown
TASK_RETRY_DELAY == 5

WEBHOOK_STATUSES == {"pending", "processing", "delivered", "failed"}

(***************************************************************************)
(* Bounds of the model                                                     *)
(***************************************************************************)
\* number of webhook ids
MaxWebhooks == 1
\* a call that can POST is started only while retry_count + 4 stays within this
MaxRetryCount == 8

WebhookIds == 1..MaxWebhooks
Urls == {"u1", "u2"}

\* models/webhook.py: column defaults of a new row, as register_webhook creates it
NewWebhook(url) ==
    [status |-> "pending", delivered |-> FALSE, delivered_at |-> FALSE,
     retry_count |-> 0, url |-> url]

\* no call in progress and nothing remembered of a previous one
IdleTask ==
    [pc |-> "idle", kind |-> "none", wid |-> 0, valid |-> TRUE, attempt |-> 0,
     posts |-> 0, fails |-> 0, startRc |-> 0, startStatus |-> "none",
     retries |-> 0, outcome |-> "none", ret |-> "none",
     waits |-> <<>>, arg |-> "none"]

NoRetry == [pending |-> FALSE, wid |-> 0, retries |-> 0, countdown |-> 0]

\* no webhook call is running (calls of one worker are sequential)
WIdle == wtask.pc \in {"idle", "done"}

(***************************************************************************)
(* register_webhook: HEAD probe, then one new row                          *)
(***************************************************************************)
\* the call as it ends: the new Webhook returned, or ConnectionError raised
RegisterCall(w, probeOk) ==
    [IdleTask EXCEPT !.pc = "done", !.kind = "register", !.wid = w,
                     !.ret = IF probeOk THEN "Webhook" ELSE "ConnectionError"]

\* register_webhook that adds the row whatever the probe answers
RegisterWebhookNoProbe(w, url, probeOk) ==
    /\ WIdle
    /\ w \notin registered
    /\ registered' = registered \cup {w}
    /\ webhooks' = [webhooks EXCEPT ![w] = NewWebhook(url)]
    /\ wtask' = RegisterCall(w, probeOk)
    /\ UNCHANGED wretry
    /\ UNCHANGED NotWebhook

RegisterWebhook(w, url, probeOk) ==
    /\ WIdle
    /\ w \notin registered
    /\ IF probeOk
       THEN /\ registered' = registered \cup {w}
            /\ webhooks' = [webhooks EXCEPT ![w] = NewWebhook(url)]
       ELSE UNCHANGED <<registered, webhooks>>   \* ConnectionError, nothing persisted
    /\ wtask' = RegisterCall(w, probeOk)
    /\ UNCHANGED wretry
    /\ UNCHANGED NotWebhook

(***************************************************************************)
(* update_webhook                                                          *)
(***************************************************************************)
\* update_webhook that resets retry_count on every successful call
UpdatedWebhookAlwaysResets(rec, url) ==
    [rec EXCEPT !.retry_count = 0, !.url = url]

UpdatedWebhook(rec, url) ==
    IF url # rec.url
    THEN [rec EXCEPT !.retry_count = 0, !.url = url]
    ELSE rec

\* what the caller of update_webhook sees: the refreshed Webhook (line 134)
\* or the ConnectionError of line 138
UpdateCall(w, url, ok) ==
    [IdleTask EXCEPT !.pc = "done", !.kind = "update", !.wid = w, !.arg = url,
                     !.startRc = webhooks[w].retry_count,
                     !.ret = IF ok THEN "Webhook" ELSE "ConnectionError"]

UpdateWebhook(w, url, probeOk) ==
    /\ WIdle
    /\ w \in registered          \* otherwise ValueError, nothing changes
    /\ IF url # webhooks[w].url /\ ~probeOk
       THEN UNCHANGED webhooks   \* ConnectionError before any assignment
       ELSE webhooks' = [webhooks EXCEPT ![w] = UpdatedWebhook(webhooks[w], url)]
    /\ wtask' = UpdateCall(w, url, url = webhooks[w].url \/ probeOk)
    /\ UNCHANGED <<registered, wretry>>
    /\ UNCHANGED NotWebhook

(***************************************************************************)
(* trigger_webhook: one execution of the function body.  outcome is what   *)
(* the calls it makes do: "ok" (POST answered 2xx), "http_error" (POST     *)
(* raised a RequestException), "error" (validate_document_data or          *)
(* generate_token raised before the POST).  The result is the changed row  *)
(* and how the body ends: returns True, returns False, or raises.          *)
(***************************************************************************)
TriggerBody(rec, outcome) ==
    CASE outcome = "ok" ->
            [rec |-> [rec EXCEPT !.status = "delivered", !.delivered_at = TRUE],
             signal |-> "true"]
      [] outcome = "http_error" ->
            [rec |-> [rec EXCEPT !.retry_count = @ + 1, !.status = "failed"],
             signal |-> IF rec.retry_count + 1 < MAX_RETRIES THEN "raise" ELSE "false"]
      [] OTHER ->
            [rec |-> [rec EXCEPT !.status = "failed"], signal |-> "raise"]

\* @retry(stop=stop_after_attempt(MAX_RETRIES), wait=wait_fixed(RETRY_DELAY)):
\* an attempt that raises is run again until the attempt number reaches
\* MAX_RETRIES, then RetryError is raised; a returned value is passed on
Tenacity(attempt, signal) ==
    IF signal = "raise"
    THEN IF attempt < MAX_RETRIES THEN "again" ELSE "raised"
    ELSE signal

\* a payload that fails validation fails it on every attempt
AttemptOutcomes(valid) ==
    IF valid THEN {"ok", "http_error", "error"} ELSE {"error"}

\* a direct call of trigger_webhook on an existing Webhook object
TriggerWebhookCall(w, valid) ==
    /\ WIdle
    /\ w \in registered
    /\ webhooks[w].retry_count + MAX_RETRIES + 1 <= MaxRetryCount
    /\ wtask' = [IdleTask EXCEPT !.pc = "attempt", !.kind = "direct", !.wid = w,
                                 !.valid = valid, !.attempt = 1,
                                 !.startRc = webhooks[w].retry_count,
                                 !.startStatus = webhooks[w].status]
    /\ UNCHANGED <<registered, webhooks, wretry>>
    /\ UNCHANGED NotWebhook

TriggerAttempt(outcome) ==
    /\ wtask.pc = "attempt"
    /\ outcome \in AttemptOutcomes(wtask.valid)
    /\ LET w    == wtask.wid
           body == TriggerBody(webhooks[w], outcome)
           next == Tenacity(wtask.attempt, body.signal)
           sent == outcome \in {"ok", "http_error"}
       IN /\ webhooks' = [webhooks EXCEPT ![w] = body.rec]
          /\ wtask' = [wtask EXCEPT
                 !.posts   = IF sent THEN @ + 1 ELSE @,
                 !.fails   = IF outcome = "http_error" THEN @ + 1 ELSE @,
                 !.attempt = IF next = "again" THEN @ + 1 ELSE @,
                 !.waits   = IF next = "again"
                             THEN Append(@, WEBHOOK_RETRY_DELAY) ELSE @,
                 !.outcome = IF next = "again" THEN "none" ELSE next,
                 !.pc      = IF next = "again" THEN "attempt"
                             ELSE IF wtask.kind = "task" THEN "tail" ELSE "done",
                 !.ret     = IF next = "again" \/ wtask.kind = "task" THEN "none" ELSE next]
    /\ UNCHANGED <<registered, wretry>>
    /\ UNCHANGED NotWebhook

(***************************************************************************)
(* process_webhook_event, lines 59-99: lookup, payload validation, the     *)
(* commit of status "processing".  fromRetry: this run is the one that     *)
(* self.retry() queued.  dbOk: the lookup query at line 62 answers; when   *)
(* it raises, the handler at line 144 reads the local name webhook, which  *)
(* was never bound, and the UnboundLocalError leaves the task.             *)
(***************************************************************************)
PweStart(w, valid, fromRetry, dbOk) ==
    /\ WIdle
    /\ fromRetry => (wretry.pending /\ w = wretry.wid /\ valid)
    /\ w \in registered => webhooks[w].retry_count + MAX_RETRIES + 1 <= MaxRetryCount
    /\ LET retries == IF fromRetry THEN wretry.retries ELSE 0
           started == [IdleTask EXCEPT !.kind = "task", !.wid = w, !.valid = valid,
                                       !.retries = retries,
                                       !.startRc = webhooks[w].retry_count,
                                       !.startStatus = IF w \in registered
                                                       THEN webhooks[w].status ELSE "none"]
       IN CASE ~dbOk ->
                 /\ wtask' = [started EXCEPT !.pc = "done", !.ret = "raised"]
                 /\ UNCHANGED webhooks
            [] dbOk /\ w \notin registered ->
                 /\ wtask' = [started EXCEPT !.pc = "done", !.ret = "False"]
                 /\ UNCHANGED webhooks
            [] dbOk /\ w \in registered /\ ~valid ->
                 /\ webhooks' = [webhooks EXCEPT ![w].status = "failed"]
                 /\ wtask' = [started EXCEPT !.pc = "done", !.ret = "False"]
            [] OTHER ->
                 /\ webhooks' = [webhooks EXCEPT ![w].status = "processing"]
                 /\ wtask' = [started EXCEPT !.pc = "attempt", !.attempt = 1]
    /\ wretry' = IF fromRetry THEN NoRetry ELSE wretry
    /\ UNCHANGED registered
    /\ UNCHANGED NotWebhook

(***************************************************************************)
(* process_webhook_event, lines 101-154: what the task does with the       *)
(* result of trigger_webhook.  self.retry() queues the next run when       *)
(* request.retries < max_retries and raises Retry, which the handler at    *)
(* line 144 catches like any other exception.                              *)
(***************************************************************************)
TailRecord(rec, outcome) ==
    CASE outcome = "true" ->
            [rec EXCEPT !.status = "delivered", !.delivered = TRUE, !.delivered_at = TRUE]
      [] outcome = "false" ->
            [rec EXCEPT !.retry_count = @ + 1, !.status = "failed"]
      [] OTHER ->
            [rec EXCEPT !.status = "failed"]

\* line 132: the task asks for a retry
TaskWantsRetry(rec, outcome) ==
    outcome = "false" /\ rec.retry_count + 1 < TASK_MAX_RETRIES

\* line 134: retry_delay = RETRY_DELAY * (5 ** self.request.retries)
TaskCountdown(retries) == TASK_RETRY_DELAY * 5 ^ retries

PweTail ==
    /\ wtask.pc = "tail"
    /\ LET w == wtask.wid
           rec == webhooks[w]
           again == TaskWantsRetry(rec, wtask.outcome) /\ wtask.retries < TASK_MAX_RETRIES
       IN /\ webhooks' = [webhooks EXCEPT ![w] = TailRecord(rec, wtask.outcome)]
          /\ wretry' = IF again
                       THEN [pending |-> TRUE, wid |-> w, retries |-> wtask.retries + 1,
                             countdown |-> TaskCountdown(wtask.retries)]
                       ELSE wretry
          /\ wtask' = [wtask EXCEPT !.pc = "done",
                                    !.ret = IF wtask.outcome = "true" THEN "True" ELSE "False"]
    /\ UNCHANGED registered
    /\ UNCHANGED NotWebhook

(***************************************************************************)
(* Several workers (celery_app.py:87, worker_concurrency = 4) taking       *)
(* process_webhook_event tasks from the queue.  Each worker process has    *)
(* its own session: the Webhook object it works on is loaded from the row  *)
(* at the first attribute access after a commit, changed in memory by      *)
(* trigger_webhook, and written back at the next commit, attribute by      *)
(* attribute, for the attributes whose value differs from the loaded one.  *)
(***************************************************************************)
\* number of worker processes
MaxWorkers == 2
Workers == 1..MaxWorkers

IdleWorker ==
    [pc |-> "idle", wid |-> 0, loaded |-> FALSE, base |-> NewWebhook("u1"),
     obj |-> NewWebhook("u1"), attempt |-> 0, outcome |-> "none"]

\* the UPDATE a commit issues: only the attributes that were changed
Flush(row, base, obj) ==
    [f \in DOMAIN row |-> IF obj[f] # base[f] THEN obj[f] ELSE row[f]]

\* lines 59-84 on worker k: lookup, valid payload, commit of "processing";
\* nothing is asked about other runs for the same webhook
WorkerStart(k, w) ==
    /\ wworkers[k].pc = "idle"
    /\ w \in registered
    /\ webhooks[w].retry_count + MAX_RETRIES + 1 <= MaxRetryCount
    /\ webhooks' = [webhooks EXCEPT ![w].status = "processing"]
    /\ wworkers' = [wworkers EXCEPT ![k] =
           [IdleWorker EXCEPT !.pc = "attempt", !.wid = w, !.attempt = 1]]
    /\ UNCHANGED <<registered, wtask, wretry>>
    /\ UNCHANGED NotWorkers

\* one execution of the body of trigger_webhook on worker k's object
WorkerAttempt(k, outcome) ==
    /\ wworkers[k].pc = "attempt"
    /\ LET me   == wworkers[k]
           base == IF me.loaded THEN me.base ELSE webhooks[me.wid]
           cur  == IF me.loaded THEN me.obj ELSE webhooks[me.wid]
           body == TriggerBody(cur, outcome)
           next == Tenacity(me.attempt, body.signal)
       IN wworkers' = [wworkers EXCEPT ![k] =
              [me EXCEPT !.loaded = TRUE, !.base = base, !.obj = body.rec,
                         !.attempt = IF next = "again" THEN @ + 1 ELSE @,
                         !.outcome = IF next = "again" THEN "none" ELSE next,
                         !.pc = IF next = "again" THEN "attempt" ELSE "tail"]]
    /\ UNCHANGED wvars
    /\ UNCHANGED NotWorkers

\* lines 101-157 on worker k: the result is written to the object, the
\* commit flushes it, the task returns
WorkerTail(k) ==
    /\ wworkers[k].pc = "tail"
    /\ LET me == wworkers[k]
           final == TailRecord(me.obj, me.outcome)
       IN webhooks' = [webhooks EXCEPT ![me.wid] = Flush(@, me.base, final)]
    /\ wworkers' = [wworkers EXCEPT ![k] = IdleWorker]
    /\ UNCHANGED <<registered, wtask, wretry>>
    /\ UNCHANGED NotWorkers

WorkersNext ==
    \/ \E w \in WebhookIds, url \in Urls, ok \in BOOLEAN : RegisterWebhook(w, url, ok)
    \/ \E k \in Workers, w \in WebhookIds : WorkerStart(k, w)
    \/ \E k \in Workers, outcome \in {"ok", "http_error", "error"} : WorkerAttempt(k, outcome)
    \/ \E k \in Workers : WorkerTail(k)

WebhookNext ==
    \/ \E w \in WebhookIds, url \in Urls, ok \in BOOLEAN : RegisterWebhook(w, url, ok)
    \/ \E w \in WebhookIds, url \in Urls, ok \in BOOLEAN : UpdateWebhook(w, url, ok)
    \/ \E w \in WebhookIds, valid \in BOOLEAN : TriggerWebhookCall(w, valid)
    \/ \E w \in WebhookIds, valid \in BOOLEAN, fromRetry \in BOOLEAN, dbOk \in BOOLEAN :
          PweStart(w, valid, fromRetry, dbOk)
    \/ \E outcome \in {"ok", "http_error", "error"} : TriggerAttempt(outcome)
    \/ PweTail

(***************************************************************************)
(* OCR pipeline: constants.  Scores are integers in units of 10^-5, so     *)
(* that rounding to 4 decimal places is a real operation.                  *)
(***************************************************************************)
\* ocr_service.py:32-33
AUTO_APPROVE_THRESHOLD == 95000
MANUAL_REVIEW_THRESHOLD == 70000
\* the literals of ocr_tasks.py:130 and :132
TASK_AUTO_APPROVE == 95000
TASK_MANUAL_REVIEW == 70000
\* schemas/ocr.py:13, MAX_CONFIDENCE_SCORE = 1.0
ScoreMax == 100000
\* ocr_tasks.py:27
OCR_MAX_RETRIES == 3
\* RETRY_DELAY of tasks/ocr_tasks.py, line 29
OCR_RETRY_DELAY == 60
\* ocr_service.py:34
SUPPORTED_FORMATS == {".pdf", ".png", ".jpg", ".jpeg", ".tiff"}
\* schemas/ocr.py:11
OCR_STATUS_CHOICES == {"pending", "processing", "processed", "failed"}
\* document_tasks.py:33-38
DOCUMENT_STATUSES == {"pending", "processing", "completed", "failed"}
\* document_service.py:32
ALLOWED_STATUSES == {"pending", "processing", "processed", "failed", "error"}

\* confidence_score IS NULL
NoScore == 0 - 1

\* number of document ids
MaxDocs == 1
\* a pipeline run is started only while the OCR rows it can add fit in this
MaxOcrResults == 5

DocIds == 1..MaxDocs
\* extensions of the uploaded files, one supported and one not
Exts == {".pdf", ".docx"}
\* what the engine and the scorer yield for an uploaded file
ScoreSamples == {60000, 69996, 92388, 94996, 97000}
\* what a run can hit besides the document itself
Faults == {"none", "validation", "image", "ocr", "upload"}

\* models/document.py: a new row is "pending" with confidence_score NULL
NewDocument(ext) ==
    [status |-> "pending", confidence_score |-> NoScore,
     storage_path |-> [loc |-> "local", ext |-> ext], metadata |-> {}]

NoObject == [attached |-> FALSE, expired |-> FALSE]

IdleOcr ==
    [pc |-> "idle", kind |-> "none", doc |-> 0, retries |-> 0, runs |-> 0,
     ok |-> FALSE, err |-> "none", firstErr |-> "none", faulted |-> FALSE,
     startStatus |-> "none", result |-> "none", countdowns |-> <<>>,
     written |-> 0]

OIdle == otask.pc \in {"idle", "done"}

(***************************************************************************)
(* The confidence-to-status mapping, once per place it is written.         *)
(***************************************************************************)
\* ocr_service.py:171-177
ServiceStatus(score) ==
    IF score >= AUTO_APPROVE_THRESHOLD THEN "processed"
    ELSE IF score >= MANUAL_REVIEW_THRESHOLD THEN "needs_review"
    ELSE "failed"

\* ocr_tasks.py:129-135
TaskStatus(score) ==
    IF score >= TASK_AUTO_APPROVE THEN "processed"
    ELSE IF score >= TASK_MANUAL_REVIEW THEN "needs_review"
    ELSE "failed"

\* OCRBase.validate_confidence_score: round(value, 4), ties to even
Round4(score) ==
    LET q == score \div 10
        r == score % 10
    IN IF r > 5 \/ (r = 5 /\ q % 2 = 1) THEN (q + 1) * 10 ELSE q * 10

\* OCRBase.validate_status, run when OCRInDB(**ocr_create.dict()) is built
ValidateStatus(status) == status \in OCR_STATUS_CHOICES

(***************************************************************************)
(* The worker's session.  SessionLocal is a scoped_session: ocr_task and   *)
(* process_document share it.  commit() and rollback() expire the loaded   *)
(* attributes, close() expunges every object; an expired attribute of a    *)
(* detached object cannot be read (DetachedInstanceError).                 *)
(***************************************************************************)
SessLoaded == [attached |-> TRUE, expired |-> FALSE]
SessCommit(o) == [o EXCEPT !.expired = TRUE]
SessRollback(o) == [o EXCEPT !.expired = TRUE]
SessClose(o) == [o EXCEPT !.attached = FALSE]
Readable(o) == o.attached \/ ~o.expired

(***************************************************************************)
(* process_document (ocr_service.py:86-211) on a Document row.  Every      *)
(* failure leaves through db.rollback() and a CustomException; success     *)
(* commits the changed row and one OCR record.                             *)
(***************************************************************************)
\* a failure path that leaves a mark of the run on the row
ServiceFailureKeepsChange(row, err) ==
    [ok |-> FALSE, err |-> err,
     row |-> [row EXCEPT !.metadata = @ \cup {"ocr_processing"}], saved |-> <<>>]

ServiceFailure(row, err) ==
    [ok |-> FALSE, err |-> err, row |-> row, saved |-> <<>>]

ProcessDocument(exists, row, score, fault) ==
    IF ~exists THEN ServiceFailure(row, "NOT_FOUND")
    ELSE IF fault = "validation" THEN ServiceFailure(row, "VALIDATION")
    ELSE IF row.storage_path.ext \notin SUPPORTED_FORMATS THEN ServiceFailure(row, "FORMAT")
    ELSE IF fault = "image" THEN ServiceFailure(row, "IMAGE")
    ELSE IF fault = "ocr" THEN ServiceFailure(row, "OCR")
    ELSE IF fault = "upload" THEN ServiceFailure(row, "UPLOAD")
    ELSE LET status == ServiceStatus(score)
         IN IF ~ValidateStatus(status) THEN ServiceFailure(row, "SCHEMA")
            ELSE [ok |-> TRUE, err |-> "none",
                  row |-> [row EXCEPT !.status = status,
                                      !.confidence_score = score,
                                      !.storage_path.loc = "s3",
                                      !.metadata = @ \cup {"ocr_processing"}],
                  saved |-> <<[status |-> status, confidence_score |-> Round4(score),
                              error_message |-> FALSE]>>]

\* a Document row appears (upload); the file's extension and what OCR will
\* read from it are fixed from then on
CreateDocument(d, ext, score) ==
    /\ OIdle
    /\ d \notin documents
    /\ documents' = documents \cup {d}
    /\ docs' = [docs EXCEPT ![d] = NewDocument(ext)]
    /\ content' = [content EXCEPT ![d] = score]
    /\ otask' = IdleOcr
    /\ UNCHANGED <<ocr_results, sess>>
    /\ UNCHANGED NotOcr

\* POST /api/v1/ocr/ (endpoints/ocr.py:55): process_document called directly
ProcessDocumentSync(d, fault) ==
    /\ OIdle
    /\ Len(ocr_results[d]) + 1 <= MaxOcrResults
    /\ LET r == ProcessDocument(d \in documents, docs[d], content[d], fault)
       IN /\ docs' = [docs EXCEPT ![d] = r.row]
          /\ ocr_results' = [ocr_results EXCEPT ![d] = @ \o r.saved]
          /\ otask' = [IdleOcr EXCEPT !.pc = "done", !.kind = "sync", !.doc = d,
                                      !.runs = 1, !.ok = r.ok, !.err = r.err,
                                      !.firstErr = r.err,
                                      !.faulted = (fault # "none"),
                                      !.written = Len(r.saved),
                                      !.startStatus = IF d \in documents
                                                      THEN docs[d].status ELSE "none",
                                      !.result = IF r.ok THEN "success" ELSE "failure"]
    /\ UNCHANGED <<documents, content, sess>>
    /\ UNCHANGED NotOcr

(***************************************************************************)
(* ocr_task, lines 99-115: lookup and the commit of "processing".          *)
(* fromRetry: this run is the one self.retry() queued.  A missing document *)
(* raises ValueError, which line 163 re-raises without a retry.            *)
(***************************************************************************)
OcrTaskBegin(d, fromRetry) ==
    /\ IF fromRetry
       THEN otask.pc = "retry_wait" /\ d = otask.doc
       ELSE OIdle /\ Len(ocr_results[d]) + OCR_MAX_RETRIES + 1 <= MaxOcrResults
    /\ LET t == IF fromRetry THEN otask
                ELSE [IdleOcr EXCEPT !.kind = "task", !.doc = d,
                                     !.startStatus = IF d \in documents
                                                     THEN docs[d].status ELSE "none"]
       IN IF d \notin documents
          THEN /\ otask' = [t EXCEPT !.pc = "failing", !.err = "ValueError",
                                     !.firstErr = "MISSING"]
               /\ sess' = NoObject
               /\ UNCHANGED docs
          ELSE /\ docs' = [docs EXCEPT ![d].status = "processing",
                                       ![d].metadata = @ \cup {"processing_started"}]
               /\ sess' = SessCommit(SessLoaded)
               /\ otask' = [t EXCEPT !.pc = "service"]
    /\ UNCHANGED <<documents, content, ocr_results>>
    /\ UNCHANGED NotOcr

\* ocr_task, line 119: the call of process_document, which ends with
\* db.close() on the shared session
OcrTaskService(fault) ==
    /\ otask.pc = "service"
    /\ LET d == otask.doc
           r == ProcessDocument(d \in documents, docs[d], content[d], fault)
       IN /\ docs' = [docs EXCEPT ![d] = r.row]
          /\ ocr_results' = [ocr_results EXCEPT ![d] = @ \o r.saved]
          /\ sess' = SessClose(IF r.ok THEN SessCommit(sess) ELSE SessRollback(sess))
          /\ otask' = [otask EXCEPT !.pc = "tail", !.runs = @ + 1, !.ok = r.ok,
                                    !.err = r.err,
                                    !.firstErr = IF otask.runs = 0 THEN r.err ELSE @,
                                    !.faulted = @ \/ (fault # "none"),
                                    !.written = @ + Len(r.saved)]
    /\ UNCHANGED <<documents, content>>
    /\ UNCHANGED NotOcr

(***************************************************************************)
(* ocr_task, lines 121-193: the rest of the task body.  After a successful *)
(* process_document it reads document.storage_path, uploads, maps the      *)
(* returned score to a status and commits; any exception goes to the       *)
(* handler, which writes "retry_pending" if the object can still be read   *)
(* and then asks for a retry (self.retry raises the exception itself once  *)
(* request.retries has reached max_retries).                               *)
(***************************************************************************)
\* a retry countdown that does not grow
RetryCountdownFixed(retries) == OCR_RETRY_DELAY

\* lines 185-186: RETRY_DELAY * (2 ** self.request.retries), RETRY_BACKOFF being True
RetryCountdown(retries) == OCR_RETRY_DELAY * 2 ^ retries

TaskSucceeds(uploadOk) == otask.ok /\ Readable(sess) /\ uploadOk

TailError(uploadOk) ==
    IF ~otask.ok THEN otask.err
    ELSE IF ~Readable(sess) THEN "DETACHED"
    ELSE "UPLOAD"

OcrTaskTail(uploadOk) ==
    /\ otask.pc = "tail"
    /\ LET d == otask.doc
           saved == ocr_results[d][Len(ocr_results[d])]
       IN IF TaskSucceeds(uploadOk)
          THEN /\ docs' = [docs EXCEPT
                      ![d].status = TaskStatus(saved.confidence_score),
                      ![d].confidence_score = saved.confidence_score,
                      ![d].storage_path.loc = "s3",
                      ![d].metadata = @ \cup {"ocr_processing"}]
               /\ sess' = SessCommit(sess)
               /\ otask' = [otask EXCEPT !.pc = "done", !.result = "success"]
          ELSE /\ IF Readable(sess)
                  THEN /\ docs' = [docs EXCEPT ![d].status = "retry_pending",
                                               ![d].metadata = @ \cup {"last_error"}]
                       /\ sess' = SessCommit(sess)
                  ELSE UNCHANGED <<docs, sess>>
               /\ otask' = [otask EXCEPT
                      !.err = TailError(uploadOk),
                      !.faulted = @ \/ (otask.ok /\ Readable(sess) /\ ~uploadOk),
                      !.pc = IF otask.retries < OCR_MAX_RETRIES
                             THEN "retry_wait" ELSE "failing",
                      !.retries = IF otask.retries < OCR_MAX_RETRIES THEN @ + 1 ELSE @,
                      !.countdowns = IF otask.retries < OCR_MAX_RETRIES
                                     THEN Append(@, RetryCountdown(otask.retries))
                                     ELSE @]
    /\ UNCHANGED <<documents, content, ocr_results>>
    /\ UNCHANGED NotOcr

\* on_failure without its write of the row
OcrOnFailureSkipsRow ==
    /\ otask.pc = "failing"
    /\ sess' = NoObject
    /\ otask' = [otask EXCEPT !.pc = "done", !.result = "failure"]
    /\ UNCHANGED <<documents, docs, content, ocr_results>>
    /\ UNCHANGED NotOcr

\* OCRTask.on_failure (ocr_tasks.py:39-72), called when the task has raised
OcrOnFailure ==
    /\ otask.pc = "failing"
    /\ LET d == otask.doc
       IN IF d \in documents
          THEN docs' = [docs EXCEPT ![d].status = "failed",
                                    ![d].metadata = @ \cup {"error"}]
          ELSE UNCHANGED docs
    /\ sess' = NoObject
    /\ otask' = [otask EXCEPT !.pc = "done", !.result = "failure"]
    /\ UNCHANGED <<documents, content, ocr_results>>
    /\ UNCHANGED NotOcr

OcrNext ==
    \/ \E d \in DocIds, ext \in Exts, score \in ScoreSamples : CreateDocument(d, ext, score)
    \/ \E d \in DocIds, fault \in Faults : ProcessDocumentSync(d, fault)
    \/ \E d \in DocIds, fromRetry \in BOOLEAN : OcrTaskBegin(d, fromRetry)
    \/ \E fault \in Faults : OcrTaskService(fault)
    \/ \E uploadOk \in BOOLEAN : OcrTaskTail(uploadOk)
    \/ OcrOnFailure

(***************************************************************************)
(* ocr_task runs for different documents on different worker processes,    *)
(* one run per document, each with the session of its own process.  The    *)
(* steps are those of ocr_task above, on the row that the lookup           *)
(* filter(Document.id == document_id).first() returns.                     *)
(***************************************************************************)
\* number of documents processed side by side
MaxFrameDocs == 2
FrameDocs == 1..MaxFrameDocs

\* what the files of these documents yield: one score that process_document
\* can save and one whose status the schema rejects
FrameScores == {92388, 97000}

IdleRun == [pc |-> "idle", sess |-> NoObject, retries |-> 0, ok |-> FALSE]

\* a lookup that ignores the id asked for
QueryAnyDocument(d) == 1

\* ocr_tasks.py:103, ocr_service.py:103, ocr_tasks.py:50: the row with that id
QueryDocument(d) == d

\* ocr_task lines 99-115 for document d (first run, or the queued retry)
FrameBegin(d) ==
    /\ fruns[d].pc \in {"idle", "retry_wait"}
    /\ LET t == QueryDocument(d)
       IN fdocs' = [fdocs EXCEPT ![t].status = "processing",
                                 ![t].metadata = @ \cup {"processing_started"}]
    /\ fruns' = [fruns EXCEPT ![d].pc = "service", ![d].sess = SessCommit(SessLoaded)]
    /\ UNCHANGED <<fcontent, fresults>>
    /\ UNCHANGED NotFrame

\* ocr_task line 119 for document d: process_document(document_id)
FrameService(d, fault) ==
    /\ fruns[d].pc = "service"
    /\ LET t == QueryDocument(d)
           r == ProcessDocument(TRUE, fdocs[t], fcontent[t], fault)
       IN /\ fdocs' = [fdocs EXCEPT ![t] = r.row]
          /\ fresults' = [fresults EXCEPT ![t] = @ \o r.saved]
          /\ fruns' = [fruns EXCEPT
                 ![d].pc = "tail", ![d].ok = r.ok,
                 ![d].sess = SessClose(IF r.ok THEN SessCommit(@) ELSE SessRollback(@))]
    /\ UNCHANGED fcontent
    /\ UNCHANGED NotFrame

\* ocr_task lines 121-193 for document d
FrameTail(d, uploadOk) ==
    /\ fruns[d].pc = "tail"
    /\ LET me == fruns[d]
           t == QueryDocument(d)
           saved == fresults[t][Len(fresults[t])]
       IN IF me.ok /\ Readable(me.sess) /\ uploadOk
          THEN /\ fdocs' = [fdocs EXCEPT
                      ![t].status = TaskStatus(saved.confidence_score),
                      ![t].confidence_score = saved.confidence_score,
                      ![t].storage_path.loc = "s3",
                      ![t].metadata = @ \cup {"ocr_processing"}]
               /\ fruns' = [fruns EXCEPT ![d].pc = "done", ![d].sess = SessCommit(@)]
          ELSE /\ IF Readable(me.sess)
                  THEN fdocs' = [fdocs EXCEPT ![t].status = "retry_pending",
                                              ![t].metadata = @ \cup {"last_error"}]
                  ELSE UNCHANGED fdocs
               /\ fruns' = [fruns EXCEPT
                      ![d].pc = IF me.retries < OCR_MAX_RETRIES
                                THEN "retry_wait" ELSE "failing",
                      ![d].retries = IF me.retries < OCR_MAX_RETRIES THEN @ + 1 ELSE @]
    /\ UNCHANGED <<fcontent, fresults>>
    /\ UNCHANGED NotFrame

\* OCRTask.on_failure for document d
FrameOnFailure(d) ==
    /\ fruns[d].pc = "failing"
    /\ LET t == QueryDocument(d)
       IN fdocs' = [fdocs EXCEPT ![t].status = "failed",
                                 ![t].metadata = @ \cup {"error"}]
    /\ fruns' = [fruns EXCEPT ![d].pc = "done", ![d].sess = NoObject]
    /\ UNCHANGED <<fcontent, fresults>>
    /\ UNCHANGED NotFrame

FrameNext ==
    \/ \E d \in FrameDocs : FrameBegin(d)
    \/ \E d \in FrameDocs, fault \in Faults : FrameService(d, fault)
    \/ \E d \in FrameDocs, uploadOk \in BOOLEAN : FrameTail(d, uploadOk)
    \/ \E d \in FrameDocs : FrameOnFailure(d)

\* the worker process dies while it runs the task: what it has committed
\* stays, what it held in its session is gone
WorkerLost ==
    /\ otask.pc \notin {"idle", "done"}
    /\ otask' = [otask EXCEPT !.pc = "done", !.result = "lost"]
    /\ sess' = NoObject
    /\ UNCHANGED <<documents, docs, content, ocr_results>>
    /\ UNCHANGED NotOcr

CrashNext ==
    \/ OcrNext
    \/ WorkerLost

(***************************************************************************)
(* The two other writers of Document.status                                *)
(***************************************************************************)
StatusInputs == DOCUMENT_STATUSES \cup ALLOWED_STATUSES \cup {"needs_review"}

\* tasks.update_document_status (document_tasks.py:167-227)
UpdateDocumentStatusTask(d, status, hasError) ==
    /\ OIdle
    /\ d \in documents                     \* otherwise ValueError, returns False
    /\ status \in DOCUMENT_STATUSES        \* otherwise ValueError, returns False
    /\ docs' = [docs EXCEPT
           ![d].status = status,
           ![d].metadata = IF hasError /\ status = "failed"
                           THEN @ \cup {"error_details"} ELSE @]
    /\ otask' = IdleOcr
    /\ UNCHANGED <<documents, content, ocr_results, sess>>
    /\ UNCHANGED NotOcr

\* document_service.update_document_status (document_service.py:150-221)
UpdateDocumentStatusService(d, status, score) ==
    /\ OIdle
    /\ status \in ALLOWED_STATUSES         \* otherwise ValueError
    /\ score # NoScore => (0 <= score /\ score <= ScoreMax)
    /\ d \in documents                     \* otherwise ValueError
    /\ docs' = [docs EXCEPT
           ![d].status = status,
           ![d].confidence_score = IF score # NoScore THEN score ELSE @]
    /\ otask' = IdleOcr
    /\ UNCHANGED <<documents, content, ocr_results, sess>>
    /\ UNCHANGED NotOcr

DocStatusNext ==
    \/ OcrNext
    \/ \E d \in DocIds, status \in StatusInputs, hasError \in BOOLEAN :
          UpdateDocumentStatusTask(d, status, hasError)
    \/ \E d \in DocIds, status \in StatusInputs, score \in ScoreSamples \cup {NoScore} :
          UpdateDocumentStatusService(d, status, score)

(***************************************************************************)
(* The two mappings on one score, each fed as the code feeds it:           *)
(* process_document maps the scorer's value (ocr_service.py:149, 171),     *)
(* ocr_task maps ocr_result.confidence_score (ocr_tasks.py:129), the field *)
(* of the OCRInDB that process_document returned, which the schema has     *)
(* rounded; no record is returned when the schema rejects the status.      *)
(***************************************************************************)
ApplyStatusMapping ==
    /\ mapService = "none"
    /\ mapService' = ServiceStatus(mapScore)
    /\ mapTask' = IF ValidateStatus(ServiceStatus(mapScore))
                  THEN TaskStatus(Round4(mapScore))
                  ELSE "none"
    /\ UNCHANGED mapScore
    /\ UNCHANGED NotMap

MapNext == ApplyStatusMapping

(***************************************************************************)
(* calculate_confidence_score (ocr_service.py:213-268).  A text is known   *)
(* by whether the string is empty and by its number of words               *)
(* (len(extracted_text.split())); confidences are integers, -1 marking a   *)
(* word without one.  The result is in units of 10^-5, cut below that.     *)
(***************************************************************************)
\* longest confidence sequence tried
MaxConfLen == 3
\* confidences tried: the sentinel, both ends, and values that put the
\* standard deviation in each of its three bands
ConfSamples == {0 - 1, 0, 70, 95, 100}
\* the empty string, a string of blanks, a short text, a text of 10 words
NoText == [nonempty |-> FALSE, words |-> 0]
TextSamples ==
    {NoText} \cup {[nonempty |-> TRUE, words |-> n] : n \in {0, 4, 10}}
\* one longer reading: ten words, each read with confidence 100
TenHundreds == [i \in 1..10 |-> 100]
ConfSeqs == UNION {[1..n -> ConfSamples] : n \in 0..MaxConfLen} \cup {TenHundreds}

RECURSIVE SumSeq(_)
SumSeq(q) == IF q = <<>> THEN 0 ELSE Head(q) + SumSeq(Tail(q))

RECURSIVE SumSquares(_)
SumSquares(q) == IF q = <<>> THEN 0 ELSE Head(q) * Head(q) + SumSquares(Tail(q))

\* line 225, `not extracted_text`, with a test that never finds the text empty
TextIsEmptyNever(text) == FALSE

\* line 225: `not extracted_text`
TextIsEmpty(text) == ~text.nonempty

\* line 231: word_confidences[word_confidences != -1]
ValidConfidences(conf) == SelectSeq(conf, LAMBDA c : c # 0 - 1)

\* lines 243-247, in percent
LengthFactor(text) == IF text.words >= 10 THEN 100 ELSE 80

\* lines 250-256, in percent: np.std is the population deviation, and
\* std < k  iff  n * sum(x^2) - sum(x)^2 < k^2 * n^2
ConsistencyFactor(v) ==
    LET n == Len(v)
        spread == n * SumSquares(v) - SumSeq(v) * SumSeq(v)
    IN IF spread < 100 * n * n THEN 110
       ELSE IF spread < 400 * n * n THEN 100
       ELSE 90

\* line 262 without the two limits
ClampNone(x) == x

\* line 262: max(0.0, min(1.0, final_score))
Clamp(x) == IF x < 0 THEN 0 ELSE IF x > ScoreMax THEN ScoreMax ELSE x

\* the scorer with the two quality factors multiplied
FinalScoreMultiplied(text, v) ==
    (SumSeq(v) * LengthFactor(text) * ConsistencyFactor(v)) \div (Len(v) * 10)

\* lines 236-259: mean(conf) / 100 * mean(quality_factors)
FinalScore(text, v) ==
    (SumSeq(v) * (LengthFactor(text) + ConsistencyFactor(v)) * 5) \div Len(v)

calculate_confidence_score(text, conf) ==
    IF TextIsEmpty(text) THEN 0
    ELSE LET v == ValidConfidences(conf)
         IN IF Len(v) = 0 THEN 0 ELSE Clamp(FinalScore(text, v))

\* a call of the scorer
CalculateConfidenceScore ==
    /\ scOut = NoScore
    /\ scOut' = calculate_confidence_score(scText, scConf)
    /\ UNCHANGED <<scText, scConf, scAgain>>
    /\ UNCHANGED NotScore

\* a second call with the same arguments
CalculateAgain ==
    /\ scOut # NoScore
    /\ scAgain = NoScore
    /\ scAgain' = calculate_confidence_score(scText, scConf)
    /\ UNCHANGED <<scText, scConf, scOut>>
    /\ UNCHANGED NotScore

ScoreNext ==
    \/ CalculateConfidenceScore
    \/ CalculateAgain

(***************************************************************************)
(* GET /api/v1/ocr/{document_id}/status (api/v1/endpoints/ocr.py)          *)
(***************************************************************************)
NoResponse ==
    [code |-> 0, status |-> "none", confidence_score |-> NoScore,
     error_message |-> FALSE, stored |-> "none"]

\* lines 168-173: the body built from the OCR record that was found;
\* None is NoScore for the score and FALSE for the message
StatusResponse(rec) ==
    [code |-> 200,
     status |-> rec.status,
     confidence_score |-> IF rec.status = "processed" THEN rec.confidence_score ELSE NoScore,
     error_message |-> IF rec.status = "failed" THEN rec.error_message ELSE FALSE,
     stored |-> rec]

\* the query has no order_by: first() may give any record of the document
GetOcrStatus(d, i, canAccess) ==
    /\ d \in DocIds
    /\ IF ocr_results[d] = <<>>
       THEN ocrResp' = [NoResponse EXCEPT !.code = 404]
       ELSE /\ i \in 1..Len(ocr_results[d])
            /\ ocrResp' = IF canAccess
                          THEN StatusResponse(ocr_results[d][i])
                          ELSE [NoResponse EXCEPT !.code = 403]
    /\ UNCHANGED NotQuery

QueryNext ==
    \/ OcrNext
    \/ \E d \in DocIds, i \in 1..MaxOcrResults, canAccess \in BOOLEAN :
          GetOcrStatus(d, i, canAccess)

(***************************************************************************)
(* tasks.process_document and the update_document_status messages it sends *)
(* (tasks/document_tasks.py).  delay() only puts a message on the queue;   *)
(* the worker's processes (celery_app.py:87, worker_concurrency = 4, one   *)
(* message each, worker_prefetch_multiplier = 1) take the messages oldest  *)
(* first and run them side by side.                                        *)
(***************************************************************************)
\* max_retries of the task decorator, document_tasks.py:73
PD_MAX_RETRIES == 3
\* stop_after_attempt of the tenacity decorator, document_tasks.py:78
PD_STOP_AFTER == 3
MaxPipelineWorkers == 2
PipelineWorkers == 1..MaxPipelineWorkers

IdlePipeline ==
    [pc |-> "idle", retries |-> 0, attempt |-> 1, dbErrors |-> FALSE]

\* what the body of process_document meets after the first delay()
PipelineOutcomes == {"ok", "invalid", "upload_failed", "create_failed"}

\* lines 108-112: the run starts by sending the 'processing' update
PdBegin ==
    /\ ptask.pc \in {"idle", "retry_wait", "again"}
    /\ pqueue' = Append(pqueue, "processing")
    /\ ptask' = [ptask EXCEPT !.pc = "running"]
    /\ UNCHANGED <<pworkers, pdoc>>
    /\ UNCHANGED NotPipeline

\* lines 114-165.  Success: the row is created (status 'pending',
\* document_service.py:86) and the 'completed' update is sent.  Failure: the
\* 'failed' update is sent and self.retry() either queues the next run or,
\* with the retries used up, raises the error itself; an IOError or
\* ConnectionError raised that way makes tenacity call the body again, any
\* other error ends the task and on_failure sends one more 'failed' update.
PdBody(outcome) ==
    /\ ptask.pc = "running"
    /\ outcome \in PipelineOutcomes
    /\ IF outcome = "ok"
       THEN /\ pdoc' = "pending"
            /\ pqueue' = Append(pqueue, "completed")
            /\ ptask' = [ptask EXCEPT !.pc = "succeeded"]
       ELSE /\ UNCHANGED pdoc
            /\ IF ptask.retries < PD_MAX_RETRIES
               THEN /\ pqueue' = Append(pqueue, "failed")
                    /\ ptask' = [ptask EXCEPT !.pc = "retry_wait", !.retries = @ + 1]
               ELSE IF outcome = "upload_failed" /\ ptask.attempt < PD_STOP_AFTER
               THEN /\ pqueue' = Append(pqueue, "failed")
                    /\ ptask' = [ptask EXCEPT !.pc = "again", !.attempt = @ + 1]
               ELSE /\ pqueue' = Append(Append(pqueue, "failed"), "failed")
                    /\ ptask' = [ptask EXCEPT !.pc = "failed"]
    /\ UNCHANGED pworkers
    /\ UNCHANGED NotPipeline

\* a free worker process takes the oldest message
StatusTake(k) ==
    /\ pworkers[k] = "idle"
    /\ pqueue # <<>>
    /\ pworkers' = [pworkers EXCEPT ![k] = Head(pqueue)]
    /\ pqueue' = Tail(pqueue)
    /\ UNCHANGED <<ptask, pdoc>>
    /\ UNCHANGED NotPipeline

\* update_document_status, lines 196-227: the row is looked up and its
\* status overwritten with the status of the message, whatever it was; a
\* missing row or a database error is logged and the task returns False
StatusRun(k, dbOk) ==
    /\ pworkers[k] # "idle"
    /\ IF pdoc # "absent" /\ dbOk
       THEN pdoc' = pworkers[k]
       ELSE UNCHANGED pdoc
    /\ ptask' = [ptask EXCEPT !.dbErrors = @ \/ (pdoc # "absent" /\ ~dbOk)]
    /\ pworkers' = [pworkers EXCEPT ![k] = "idle"]
    /\ UNCHANGED pqueue
    /\ UNCHANGED NotPipeline

PipelineNext ==
    \/ PdBegin
    \/ \E outcome \in PipelineOutcomes : PdBody(outcome)
    \/ \E k \in PipelineWorkers : StatusTake(k)
    \/ \E k \in PipelineWorkers, dbOk \in BOOLEAN : StatusRun(k, dbOk)

(***************************************************************************)
(* The token blacklist (utils/security.py).  verify_token returns the      *)
(* payload or raises; validate_user_data and the claim and security-level  *)
(* checks answer yes or no; all of them are inputs of the calls.           *)
(***************************************************************************)
MaxTokens == 3
Tokens == 1..MaxTokens

NoCall ==
    [fn |-> "none", token |-> 0, userOk |-> FALSE, verified |-> FALSE, ret |-> FALSE]

\* blacklist_token, lines 103-132
BlacklistToken(t, verifies) ==
    /\ TOKEN_BLACKLIST' = IF verifies THEN TOKEN_BLACKLIST \cup {t} ELSE TOKEN_BLACKLIST
    /\ confirmed' = IF verifies THEN confirmed \cup {t} ELSE confirmed
    /\ secCall' = [fn |-> "blacklist_token", token |-> t, userOk |-> FALSE,
                   verified |-> verifies, ret |-> verifies]
    /\ UNCHANGED NotSecurity

\* enhance_security_checks without the test of line 50
SecurityChecksNoBlacklist(t, userOk, verifies, claimsOk, levelOk) ==
    userOk /\ verifies /\ claimsOk /\ levelOk

\* enhance_security_checks, lines 41-87: the checks in the order of the
\* code; _check_login_attempts (line 66) always answers True
SecurityChecks(t, userOk, verifies, claimsOk, levelOk) ==
    IF ~userOk THEN FALSE
    ELSE IF t \in TOKEN_BLACKLIST THEN FALSE
    ELSE IF ~verifies THEN FALSE
    ELSE IF ~claimsOk THEN FALSE
    ELSE levelOk

EnhanceSecurityChecks(t, userOk, verifies, claimsOk, levelOk) ==
    /\ secCall' = [fn |-> "enhance_security_checks", token |-> t, userOk |-> userOk,
                   verified |-> verifies,
                   ret |-> SecurityChecks(t, userOk, verifies, claimsOk, levelOk)]
    /\ UNCHANGED <<TOKEN_BLACKLIST, confirmed>>
    /\ UNCHANGED NotSecurity

SecurityNext ==
    \/ \E t \in Tokens, verifies \in BOOLEAN : BlacklistToken(t, verifies)
    \/ \E t \in Tokens, userOk \in BOOLEAN, verifies \in BOOLEAN,
          claimsOk \in BOOLEAN, levelOk \in BOOLEAN :
          EnhanceSecurityChecks(t, userOk, verifies, claimsOk, levelOk)

(***************************************************************************)
(* Specifications                                                          *)
(***************************************************************************)
\* the state before any request: no rows, no call in progress
Init ==
    /\ registered = {}
    /\ webhooks = [w \in WebhookIds |-> NewWebhook("u1")]
    /\ wtask = IdleTask
    /\ wretry = NoRetry
    /\ documents = {}
    /\ docs = [d \in DocIds |-> NewDocument(".pdf")]
    /\ content = [d \in DocIds |-> ScoreMax]
    /\ ocr_results = [d \in DocIds |-> <<>>]
    /\ sess = NoObject
    /\ otask = IdleOcr
    /\ mapScore = 0
    /\ mapService = "none"
    /\ mapTask = "none"
    /\ wworkers = [k \in Workers |-> IdleWorker]
    /\ fdocs = [d \in FrameDocs |-> NewDocument(".pdf")]
    /\ fcontent = [d \in FrameDocs |-> ScoreMax]
    /\ fresults = [d \in FrameDocs |-> <<>>]
    /\ fruns = [d \in FrameDocs |-> IdleRun]
    /\ scText = NoText
    /\ scConf = <<>>
    /\ scOut = NoScore
    /\ scAgain = NoScore
    /\ ocrResp = NoResponse
    /\ ptask = IdlePipeline
    /\ pqueue = <<>>
    /\ pworkers = [k \in PipelineWorkers |-> "idle"]
    /\ pdoc = "absent"
    /\ TOKEN_BLACKLIST = {}
    /\ confirmed = {}
    /\ secCall = NoCall

\* the same, with any score in [0, 1] handed to the mappings
MapInit ==
    /\ registered = {}
    /\ webhooks = [w \in WebhookIds |-> NewWebhook("u1")]
    /\ wtask = IdleTask
    /\ wretry = NoRetry
    /\ documents = {}
    /\ docs = [d \in DocIds |-> NewDocument(".pdf")]
    /\ content = [d \in DocIds |-> ScoreMax]
    /\ ocr_results = [d \in DocIds |-> <<>>]
    /\ sess = NoObject
    /\ otask = IdleOcr
    /\ mapScore \in 0..ScoreMax
    /\ mapService = "none"
    /\ mapTask = "none"
    /\ wworkers = [k \in Workers |-> IdleWorker]
    /\ fdocs = [d \in FrameDocs |-> NewDocument(".pdf")]
    /\ fcontent = [d \in FrameDocs |-> ScoreMax]
    /\ fresults = [d \in FrameDocs |-> <<>>]
    /\ fruns = [d \in FrameDocs |-> IdleRun]
    /\ scText = NoText
    /\ scConf = <<>>
    /\ scOut = NoScore
    /\ scAgain = NoScore
    /\ ocrResp = NoResponse
    /\ ptask = IdlePipeline
    /\ pqueue = <<>>
    /\ pworkers = [k \in PipelineWorkers |-> "idle"]
    /\ pdoc = "absent"
    /\ TOKEN_BLACKLIST = {}
    /\ confirmed = {}
    /\ secCall = NoCall

WebhookSpec == Init /\ [][WebhookNext]_vars

OcrSpec == Init /\ [][OcrNext]_vars

DocStatusSpec == Init /\ [][DocStatusNext]_vars

\* what a worker does by itself once a task has been dispatched: run it, run
\* the retry that self.retry() queued, call on_failure when it has raised
OcrTaskStep ==
    \/ \E d \in DocIds : OcrTaskBegin(d, TRUE)
    \/ \E fault \in Faults : OcrTaskService(fault)
    \/ \E uploadOk \in BOOLEAN : OcrTaskTail(uploadOk)
    \/ OcrOnFailure

\* the pipeline with a worker that is not killed and a database that answers
OcrLiveSpec == Init /\ [][OcrNext]_vars /\ WF_vars(OcrTaskStep)

MapSpec == MapInit /\ [][MapNext]_vars

WorkersSpec == Init /\ [][WorkersNext]_vars

\* pending documents of any content, one ocr_task for each
FrameInit ==
    /\ registered = {}
    /\ webhooks = [w \in WebhookIds |-> NewWebhook("u1")]
    /\ wtask = IdleTask
    /\ wretry = NoRetry
    /\ documents = {}
    /\ docs = [d \in DocIds |-> NewDocument(".pdf")]
    /\ content = [d \in DocIds |-> ScoreMax]
    /\ ocr_results = [d \in DocIds |-> <<>>]
    /\ sess = NoObject
    /\ otask = IdleOcr
    /\ mapScore = 0
    /\ mapService = "none"
    /\ mapTask = "none"
    /\ wworkers = [k \in Workers |-> IdleWorker]
    /\ fdocs = [d \in FrameDocs |-> NewDocument(".pdf")]
    /\ fcontent \in [FrameDocs -> FrameScores]
    /\ fresults = [d \in FrameDocs |-> <<>>]
    /\ fruns = [d \in FrameDocs |-> IdleRun]
    /\ scText = NoText
    /\ scConf = <<>>
    /\ scOut = NoScore
    /\ scAgain = NoScore
    /\ ocrResp = NoResponse
    /\ ptask = IdlePipeline
    /\ pqueue = <<>>
    /\ pworkers = [k \in PipelineWorkers |-> "idle"]
    /\ pdoc = "absent"
    /\ TOKEN_BLACKLIST = {}
    /\ confirmed = {}
    /\ secCall = NoCall

FrameSpec == FrameInit /\ [][FrameNext]_vars

\* any text and any confidence sequence handed to the scorer
ScoreInit ==
    /\ registered = {}
    /\ webhooks = [w \in WebhookIds |-> NewWebhook("u1")]
    /\ wtask = IdleTask
    /\ wretry = NoRetry
    /\ documents = {}
    /\ docs = [d \in DocIds |-> NewDocument(".pdf")]
    /\ content = [d \in DocIds |-> ScoreMax]
    /\ ocr_results = [d \in DocIds |-> <<>>]
    /\ sess = NoObject
    /\ otask = IdleOcr
    /\ mapScore = 0
    /\ mapService = "none"
    /\ mapTask = "none"
    /\ wworkers = [k \in Workers |-> IdleWorker]
    /\ fdocs = [d \in FrameDocs |-> NewDocument(".pdf")]
    /\ fcontent = [d \in FrameDocs |-> ScoreMax]
    /\ fresults = [d \in FrameDocs |-> <<>>]
    /\ fruns = [d \in FrameDocs |-> IdleRun]
    /\ scText \in TextSamples
    /\ scConf \in ConfSeqs
    /\ scOut = NoScore
    /\ scAgain = NoScore
    /\ ocrResp = NoResponse
    /\ ptask = IdlePipeline
    /\ pqueue = <<>>
    /\ pworkers = [k \in PipelineWorkers |-> "idle"]
    /\ pdoc = "absent"
    /\ TOKEN_BLACKLIST = {}
    /\ confirmed = {}
    /\ secCall = NoCall

ScoreSpec == ScoreInit /\ [][ScoreNext]_vars

\* the pipeline on a worker that can die between any two of its commits
OcrCrashSpec == Init /\ [][CrashNext]_vars

\* one dispatch of tasks.process_document and the status updates it sends
PipelineSpec == Init /\ [][PipelineNext]_vars

\* calls of blacklist_token and enhance_security_checks in one process
SecuritySpec == Init /\ [][SecurityNext]_vars

\* the OCR pipeline with status queries arriving at any moment
StatusQuerySpec == Init /\ [][QueryNext]_vars


(***************************************************************************)
(* Claims about webhook delivery                                           *)
(***************************************************************************)
\* the webhook row the current (or last) call works on
CallRow == webhooks[wtask.wid]

\* C1: in every reachable state every Webhook row has retry_count <= MAX_RETRIES.
C1_RetryCountBounded ==
    \A w \in registered : webhooks[w].retry_count <= MAX_RETRIES

\* C2: once a call that started at retry_count = 0 has made three failed
\* delivery attempts, retry_count is 3, status is "failed", no fourth POST
\* is made and no further automatic attempt is queued.
C2_ThreeFailuresEndAtThree ==
    (wtask.kind # "none" /\ wtask.startRc = 0 /\ wtask.fails = 3)
        => /\ CallRow.retry_count = 3
           /\ CallRow.status = "failed"
           /\ wtask.posts = 3
           /\ ~wretry.pending

\* C3: a Webhook with delivered = true has status "delivered" and
\* delivered_at set, in every reachable state.
C3_DeliveredImpliesStatus ==
    \A w \in registered :
        webhooks[w].delivered =>
            (webhooks[w].status = "delivered" /\ webhooks[w].delivered_at)

\* C4: process_webhook_event run on a webhook that is "failed" with
\* retry_count = MAX_RETRIES makes no POST and leaves the status "failed".
C4_FailedAtMaxIsTerminal ==
    (wtask.kind = "task" /\ wtask.startStatus = "failed" /\ wtask.startRc = MAX_RETRIES)
        => (wtask.posts = 0 /\ CallRow.status = "failed")

(***************************************************************************)
(* Claims about the OCR pipeline and Document.status                       *)
(***************************************************************************)
TerminalStatuses == {"processed", "needs_review", "failed"}

\* C5: in every reachable state a Document's confidence_score is set if and
\* only if its status is processed, needs_review or failed.
C5_ScoreIffTerminal ==
    \A d \in documents :
        (docs[d].confidence_score # NoScore) <=> (docs[d].status \in TerminalStatuses)

\* C6: every change of a Document's status is pending -> processing or
\* processing -> terminal; a terminal status is left only for "processing",
\* and only by the start of a task run (the reprocessing request).
C6_MonotonicStatus ==
    [][\A d \in documents :
          docs'[d].status # docs[d].status =>
              \/ docs[d].status = "pending" /\ docs'[d].status = "processing"
              \/ docs[d].status = "processing" /\ docs'[d].status \in TerminalStatuses
              \/ /\ docs[d].status \in TerminalStatuses
                 /\ docs'[d].status = "processing"
                 /\ otask'.kind = "task" /\ otask'.pc = "service"]_vars

\* C7: in every reachable state every Document's status is one of pending,
\* processing, processed, needs_review, failed.
C7_StatusInEnum ==
    \A d \in documents :
        docs[d].status \in {"pending", "processing"} \cup TerminalStatuses

\* C8: a pipeline run (ocr_task with its retries, or the synchronous call)
\* that started on a pending document of a supported format and met no
\* infrastructure failure ends with the Document's status equal to the
\* threshold mapping of its score and with an OCR record of that status.
C8_PipelineEndsAtMappedStatus ==
    LET d == otask.doc
    IN (/\ otask.pc = "done"
        /\ otask.kind \in {"task", "sync"}
        /\ otask.startStatus = "pending"
        /\ ~otask.faulted
        /\ docs[d].storage_path.ext \in SUPPORTED_FORMATS)
           => /\ docs[d].status = ServiceStatus(content[d])
              /\ Len(ocr_results[d]) > 0
              /\ ocr_results[d][Len(ocr_results[d])].status = ServiceStatus(content[d])

C10_ValidationNotRetried ==
    (otask.kind = "task" /\ otask.firstErr \in {"FORMAT", "VALIDATION", "MISSING"})
        => (otask.retries = 0 /\ otask.pc # "retry_wait" /\ otask.runs <= 1)

\* C11: every dispatched ocr_task eventually stops, and when it stops as a
\* failure the document is "failed" with the error kept in its metadata.
C11_TaskEndsFailed ==
    (otask.kind = "task" /\ otask.pc \notin {"idle", "done"})
        ~> (/\ otask.kind = "task"
            /\ otask.pc = "done"
            /\ (otask.result = "failure" /\ otask.doc \in documents)
                  => /\ docs[otask.doc].status = "failed"
                     /\ "error" \in docs[otask.doc].metadata)

\* a task that used up its retries on transient failures and has stopped
C11_Witness ==
    /\ otask.kind = "task"
    /\ otask.pc = "done"
    /\ otask.retries = OCR_MAX_RETRIES
    /\ otask.err \in {"IMAGE", "OCR", "UPLOAD"}
    /\ docs[otask.doc].status = "failed"
    /\ "error" \in docs[otask.doc].metadata

\* the metadata entries that carry an error
ErrorKeys == {"error", "last_error", "error_details"}

\* C12: a Document that is "processed" has a confidence_score and no error
\* recorded; a Document that is "failed" has an error recorded, and so has
\* every OCR record saved as "failed".
C12_ErrorMessageMatchesStatus ==
    \A d \in documents :
        /\ docs[d].status = "processed" =>
              (docs[d].confidence_score # NoScore /\ docs[d].metadata \cap ErrorKeys = {})
        /\ docs[d].status = "failed" =>
              /\ docs[d].metadata \cap ErrorKeys # {}
              /\ \A i \in 1..Len(ocr_results[d]) :
                    ocr_results[d][i].status = "failed" => ocr_results[d][i].error_message

\* C13: a finished process_webhook_event has returned True or False, never
\* raised; when it returned False for an existing webhook the row is
\* "failed".
C13_TaskNeverRaises ==
    (wtask.kind = "task" /\ wtask.pc = "done")
        => /\ wtask.ret \in {"True", "False"}
           /\ (wtask.ret = "False" /\ wtask.wid \in registered) => CallRow.status = "failed"

C15_OneDeliveryPerWebhook ==
    \A k1, k2 \in Workers :
        (/\ k1 # k2
         /\ wworkers[k1].pc \in {"attempt", "tail"}
         /\ wworkers[k2].pc \in {"attempt", "tail"})
            => wworkers[k1].wid # wworkers[k2].wid

\* a Document carries the result of scoring
Scored(d) == docs[d].confidence_score # NoScore \/ "ocr_processing" \in docs[d].metadata

\* a step that is a run of process_document which failed
FailedServiceStep ==
    /\ ~otask'.ok
    /\ \/ otask.pc = "service" /\ otask'.pc = "tail"
       \/ otask'.kind = "sync" /\ otask'.pc = "done" /\ otask' # otask

\* C16: with the worker dying at any point, a Document carries a scoring
\* result exactly when an OCR record of it is stored, and a failed run of
\* process_document changes no row.
C16_ScoringCommittedAtomically ==
    /\ [](\A d \in documents : Scored(d) <=> Len(ocr_results[d]) > 0)
    /\ [][FailedServiceStep => (docs' = docs /\ ocr_results' = ocr_results)]_vars

\* the worker died right after process_document had committed
C16_Witness ==
    /\ otask.result = "lost"
    /\ otask.ok
    /\ Len(ocr_results[otask.doc]) > 0
    /\ docs[otask.doc].status = "processed"

\* C17: a step of the pipeline run for one document leaves the row and the
\* OCR records of every other document as they were.
C17_OtherDocumentsUntouched ==
    [][\A b \in FrameDocs :
          fruns'[b] = fruns[b] => (fdocs'[b] = fdocs[b] /\ fresults'[b] = fresults[b])]_vars

\* two runs for two documents are in progress and one has saved its record
C17_Witness ==
    \E a, b \in FrameDocs :
        /\ a # b
        /\ fruns[a].pc = "tail" /\ Len(fresults[a]) > 0
        /\ fruns[b].pc = "service" /\ Len(fresults[b]) = 0
        /\ fdocs[b].status = "processing"

AllSentinel(conf) == \A i \in 1..Len(conf) : conf[i] = 0 - 1

\* C19: calculate_confidence_score returns exactly 0.0 when the confidence
\* sequence is empty, when every confidence is -1, or when the text is the
\* empty string, whatever the other argument is.
C19_ZeroWithoutInput ==
    (scOut # NoScore /\ (scConf = <<>> \/ AllSentinel(scConf) \/ ~scText.nonempty))
        => scOut = 0

\* an empty text with good confidences scores 0.0
C19_Witness ==
    /\ ~scText.nonempty
    /\ scConf = <<95, 100>>
    /\ scOut = 0

\* C20: after a run of process_document that saved its result, the score on
\* the Document is a multiple of 0.0001 and equals the score on the OCR
\* record saved by that run.
C20_StoredScoresRoundedAndEqual ==
    LET d == otask.doc
    IN (otask.kind = "sync" /\ otask.pc = "done" /\ otask.ok)
          => /\ docs[d].confidence_score % 10 = 0
             /\ docs[d].confidence_score
                   = ocr_results[d][Len(ocr_results[d])].confidence_score

(***************************************************************************)
(* Delivery waits, retry_count bookkeeping and update_webhook              *)
(***************************************************************************)
\* C21: every wait between two consecutive delivery attempts of one
\* process_webhook_event run follows the curve base * 5^attempt, that is
\* 5 s before the second attempt and 25 s before the third, and a queued
\* task retry carries the countdown of the same curve.
C21_WaitsFollowBackoffCurve ==
    /\ \A i \in 1..Len(wtask.waits) : wtask.waits[i] = TASK_RETRY_DELAY * 5 ^ (i - 1)
    /\ wretry.pending => wretry.countdown = TASK_RETRY_DELAY * 5 ^ (wretry.retries - 1)

\* C25: during and after a delivery call the stored retry_count is the
\* count at the start of the call plus the number of POSTs of the call that
\* failed; nothing else moves it.
C25_RetryCountCountsFailedPosts ==
    (wtask.kind \in {"direct", "task"} /\ wtask.wid \in registered)
        => webhooks[wtask.wid].retry_count = wtask.startRc + wtask.fails

\* C29: an update_webhook step resets retry_count to 0 exactly when the URL
\* changes and the probe succeeds; with the URL unchanged retry_count stays;
\* a failed probe raises ConnectionError and leaves the stored row as it
\* was; status, delivered and delivered_at are never changed.
C29_UpdateStep ==
    (wtask'.kind = "update" /\ wtask' # wtask) =>
        LET w   == wtask'.wid
            old == webhooks[w]
            new == webhooks'[w]
        IN /\ registered' = registered
           /\ \A x \in WebhookIds \ {w} : webhooks'[x] = webhooks[x]
           /\ new.status = old.status
           /\ new.delivered = old.delivered
           /\ new.delivered_at = old.delivered_at
           /\ wtask'.ret = "ConnectionError"
                => wtask'.arg # old.url /\ new = old
           /\ wtask'.ret = "Webhook"
                => /\ new.url = wtask'.arg
                   /\ new.retry_count = IF wtask'.arg # old.url THEN 0 ELSE old.retry_count

C29_UpdateFrame == [][C29_UpdateStep]_vars

\* an update to a new URL, probe answered, of a webhook with failed
\* deliveries behind it: the count is back at 0
C29_Witness ==
    /\ wtask.kind = "update"
    /\ wtask.ret = "Webhook"
    /\ wtask.startRc > 0
    /\ webhooks[wtask.wid].url = "u2"
    /\ webhooks[wtask.wid].retry_count = 0

C28_CompletedAfterAllUpdates ==
    (/\ ptask.pc = "succeeded"
     /\ ~ptask.dbErrors
     /\ pqueue = <<>>
     /\ \A k \in PipelineWorkers : pworkers[k] = "idle")
        => pdoc = "completed"

\* C30: the blacklist only grows; a token for which blacklist_token has
\* returned True is in it and enhance_security_checks returns False for it
\* whatever the user data; blacklist_token returns True and adds the token
\* only when the token verifies, and returns False with the set unchanged
\* otherwise.
C30_ConfirmedRejected ==
    /\ confirmed \subseteq TOKEN_BLACKLIST
    /\ (secCall.fn = "enhance_security_checks" /\ secCall.token \in confirmed)
          => ~secCall.ret

C30_BlacklistStep ==
    /\ TOKEN_BLACKLIST \subseteq TOKEN_BLACKLIST'
    /\ (secCall'.fn = "blacklist_token" /\ <<secCall, TOKEN_BLACKLIST>>' # <<secCall, TOKEN_BLACKLIST>>)
          => IF secCall'.ret
             THEN /\ secCall'.verified
                  /\ TOKEN_BLACKLIST' = TOKEN_BLACKLIST \cup {secCall'.token}
             ELSE /\ ~secCall'.verified
                  /\ TOKEN_BLACKLIST' = TOKEN_BLACKLIST

C23_Valid == SelectSeq(scConf, LAMBDA c : c >= 0)

C23_Expected ==
    LET v    == C23_Valid
        n    == Len(v)
        sum  == SumSeq(v)
        var  == n * SumSquares(v) - sum * sum      \* n^2 times the variance
        L    == IF scText.words >= 10 THEN 100 ELSE 80
        C    == IF var < 10 * 10 * n * n THEN 110
                ELSE IF var < 20 * 20 * n * n THEN 100 ELSE 90
        raw  == (sum * 1000 * (L + C)) \div (n * 200)
    IN IF raw > ScoreMax THEN ScoreMax ELSE IF raw < 0 THEN 0 ELSE raw

C23_ScoreFormula ==
    (scOut # NoScore /\ scText.nonempty /\ Len(C23_Valid) > 0)
        => /\ scOut = C23_Expected
           /\ (scText.words = 10 /\ scConf = TenHundreds) => scOut = ScoreMax

\* a short text read with uneven confidences: L = 0.8, C = 0.9 or 1.0, so
\* averaging and multiplying the factors give different scores
C23_Witness ==
    /\ scOut # NoScore
    /\ scText.nonempty
    /\ scText.words = 4
    /\ scConf = <<70, 100, 0 - 1>>
    /\ scOut = 76500

\* ten words read with confidence 100 each
C23_Example ==
    /\ scText.words = 10
    /\ scConf = TenHundreds
    /\ scOut = ScoreMax

\* C24: one ocr_task dispatch runs the pipeline at most MAX_RETRIES + 1 = 4
\* times, and the countdowns of its retries are, in order, 60, 120 and 240
\* seconds.
C24_BoundedBackoff ==
    /\ otask.runs <= 4
    /\ Len(otask.countdowns) <= 3
    /\ otask.countdowns = SubSeq(<<60, 120, 240>>, 1, Len(otask.countdowns))

\* a dispatch that has used all its retries
C24_Witness ==
    /\ otask.runs = 4
    /\ otask.countdowns = <<60, 120, 240>>
    /\ otask.result = "failure"

\* C26: whenever ocr_task has met a retryable failure and waits for its
\* retry, the persisted Document has status 'retry_pending' and a
\* last_error entry in its metadata.
C26_RetryPendingPersisted ==
    (otask.kind = "task" /\ otask.pc = "retry_wait")
        => /\ docs[otask.doc].status = "retry_pending"
           /\ "last_error" \in docs[otask.doc].metadata

\* C27: one ocr_task dispatch, its retries included, persists at most one
\* OCR record: a failure after process_document has committed does not make
\* a retry write a second one.
C27_OneRecordPerDispatch ==
    otask.kind = "task" => otask.written <= 1
====
